---- MODULE Spec2Model ----
(***************************************************************************)
(* CYD video player: the polled BOOT-button gesture recognizer, the        *)
(* display-polarity preference, the playlist catalog, the playback engine  *)
(* and the playlist cursor of the two sketches of the repository:          *)
(*   "V3p0"  = src/ArduinoCode/CYD_VideoPlayer.ino                         *)
(*   "prev"  = src/unnamed/part_000 (the sketch V3p0 was derived from)     *)
(* The program is single-threaded.  The environment (the millisecond       *)
(* clock, the button line, the SD card) moves between program steps.       *)
(***************************************************************************)
EXTENDS Integers, Sequences, FiniteSets, TLC

(* ------------------------------------------------------------------ *)
(* Program constants                                                   *)
(* ------------------------------------------------------------------ *)
BUTTON_DEBOUNCE_MS == 30
LONG_PRESS_MS == 1200
SPLASH_MS == 5000
MAX_FILES == 20

HIGH == TRUE
LOW == FALSE

(* ------------------------------------------------------------------ *)
(* Bounds of the model                                                 *)
(* ------------------------------------------------------------------ *)
\* clock advances per boot
MaxTicks == 3
\* frames in the stream of the longer / the shorter media file
FramesLong == 2
FramesShort == 1
\* directory listings of the catalog specification: at most this many entries
MaxListLen == 3

\* the amounts by which the clock advances between two program steps (ms)
ClockSteps == {15, 45, 1200}

\* millis() is a uint32_t; the model's integers are narrower than 2^32, so the
\* clock is kept modulo 2^30, above every time the bounds let it reach
MillisModulus == 2^30

\* the difference taken without the wrap of the unsigned type
SubNoWrap(a, b) == a - b
\* a - b on two clock values
Sub32(a, b) == (a - b) % MillisModulus

\* the 32 bits of a uint32_t as two 16-bit halves
LimbBase == 65536
U32(hi, lo) == [hi |-> hi, lo |-> lo]

\* a - b on two uint32_t, bit for bit: the low halves with a borrow into the
\* high halves, the borrow out of the high halves dropped
U32Sub(a, b) ==
  LET lo == a.lo - b.lo
      borrow == IF lo < 0 THEN 1 ELSE 0
      hi == a.hi - b.hi - borrow
  IN U32(hi % LimbBase, lo % LimbBase)

\* the value millis() has where the model's clock reads t, within half a
\* modulus of the wrap: the model's wrap stands for the wrap past 2^32, so a
\* reading in the upper half lies 2^32 - 2^30 higher in the device
ToU32(t) ==
  IF t >= MillisModulus \div 2
  THEN U32((3 * (MillisModulus \div LimbBase)) + (t \div LimbBase), t % LimbBase)
  ELSE U32(t \div LimbBase, t % LimbBase)

(* ------------------------------------------------------------------ *)
(* Names: Arduino Strings as sequences of one-character strings        *)
(* ------------------------------------------------------------------ *)
DotMjpeg == <<".", "m", "j", "p", "e", "g">>
EmptyName == << >>
NameA == <<"a">> \o DotMjpeg
NameB == <<"b">> \o DotMjpeg
NameZ == <<"z">> \o DotMjpeg
NameHidden == <<".", "_", "a">> \o DotMjpeg
NameDsStore == <<".", "D", "S">>
NameTxt == <<"n", ".", "t", "x", "t">>
NameDir == <<"d">> \o DotMjpeg
Letters == <<"a", "b", "c", "d", "e", "f", "g", "h", "i", "j", "k", "l", "m",
             "n", "o", "p", "q", "r", "s", "t", "u", "v", "w", "x", "y", "z">>

\* String::startsWith
StartsWith(s, p) == Len(s) >= Len(p) /\ SubSeq(s, 1, Len(p)) = p
\* String::endsWith
EndsWith(s, p) == Len(s) >= Len(p) /\ SubSeq(s, Len(s) - Len(p) + 1, Len(s)) = p

(* A directory entry as the storage driver reports it: its name, whether it
   is a directory, and the number of frame chunks its byte stream yields.   *)
Entry(n, d, f) == [name |-> n, isDir |-> d, frames |-> f]
EA == Entry(NameA, FALSE, FramesLong)
EB == Entry(NameB, FALSE, FramesShort)
EZ == Entry(NameZ, FALSE, 0)
EH == Entry(NameHidden, FALSE, 0)
ES == Entry(NameDsStore, FALSE, 0)
ET == Entry(NameTxt, FALSE, 0)
ED == Entry(NameDir, TRUE, 0)

Sketches == {"V3p0", "prev"}

VARIABLES
  sketch,            \* which of the two sketches is flashed
  listing,           \* the /mjpeg directory snapshot, in driver-reported order
  sdFail,            \* the SD card currently fails every open and read
  now,               \* millis()
  ticks,             \* clock advances so far (bounded by MaxTicks)
  pin,               \* level of the BOOT line (LOW while pressed)
  pc,                \* position of the program
  diag,              \* last fatal diagnostic printed ("" when none)
  mjpegFileList, mjpegCount, currentMjpegIndex,
  gInvert,           \* in-memory polarity
  nvs,               \* the persisted "inv" record: {} when absent, else {value}
  disp,              \* polarity last given to invertDisplay: {} before the first
  btnPrev, btnDownMs, btnLastChangeMs, nextFileRequested,
  total_frames, start_ms,
  framesLeft,        \* frame chunks left in the open stream
  dirPos,            \* entries of the listing already returned by openNextFile
  obs                \* history of what was observed (see Obs0)

envVars == <<sketch, listing, sdFail, now, ticks, pin>>
catVars == <<mjpegFileList, mjpegCount, dirPos>>
prefVars == <<gInvert, nvs, disp>>
btnVars == <<btnPrev, btnDownMs, btnLastChangeMs, nextFileRequested>>
playVars == <<total_frames, start_ms, framesLeft, currentMjpegIndex>>
vars == <<envVars, catVars, prefVars, btnVars, playVars, pc, diag, obs>>


(* ------------------------------------------------------------------ *)
(* Preference store (one boolean, "inv", under namespace "disp")       *)
(* ------------------------------------------------------------------ *)
LoadDisplayPrefsDefault(store, g) == g
\* loadDisplayPrefs: prefs.getBool("inv", gInvert) - the stored value, or the
\* current in-memory value when no record exists
LoadDisplayPrefs(store, g) == IF store = {} THEN g ELSE CHOOSE v \in store : TRUE

SaveDisplayPrefsNoWrite(store, g) == store
\* saveDisplayPrefs: prefs.putBool("inv", gInvert) - the new content of the store
SaveDisplayPrefs(store, g) == {g}

\* applyDisplayPrefs: gfx->invertDisplay(gInvert) - the polarity the panel shows
ApplyDisplayPrefs(shown, g) == {g}

(* ------------------------------------------------------------------ *)
(* Gesture recognizer                                                  *)
(* ------------------------------------------------------------------ *)
\* (now - btnLastChangeMs) > BUTTON_DEBOUNCE_MS
DebounceElapsed(t, last) == Sub32(t, last) > BUTTON_DEBOUNCE_MS

IsLongPressStrict(held) == held > LONG_PRESS_MS
\* held >= LONG_PRESS_MS
IsLongPress(held) == held >= LONG_PRESS_MS

\* The state handleBootButton reads and writes
BtnState == [btnPrev |-> btnPrev, btnDownMs |-> btnDownMs,
             btnLastChangeMs |-> btnLastChangeMs,
             nextFileRequested |-> nextFileRequested,
             gInvert |-> gInvert, nvs |-> nvs, disp |-> disp]

\* the released branch with the long-press toggle also requesting the next file
ReleasedBoth(s, t) ==
  LET held == Sub32(t, s.btnDownMs) IN
  IF IsLongPress(held)
  THEN [s EXCEPT !.gInvert = ~s.gInvert,
                 !.nvs = SaveDisplayPrefs(s.nvs, ~s.gInvert),
                 !.disp = ApplyDisplayPrefs(s.disp, ~s.gInvert),
                 !.nextFileRequested = TRUE]
  ELSE [s EXCEPT !.nextFileRequested = TRUE]
\* the released branch measuring the hold from the start of the session only
ReleasedSinceOpen(s, t) ==
  LET held == IF Sub32(t, start_ms) < Sub32(t, s.btnDownMs)
              THEN Sub32(t, start_ms) ELSE Sub32(t, s.btnDownMs) IN
  IF IsLongPress(held)
  THEN [s EXCEPT !.gInvert = ~s.gInvert,
                 !.nvs = SaveDisplayPrefs(s.nvs, ~s.gInvert),
                 !.disp = ApplyDisplayPrefs(s.disp, ~s.gInvert)]
  ELSE [s EXCEPT !.nextFileRequested = TRUE]
\* handleBootButton, the released branch: classify by the held duration
Released(s, t) ==
  LET held == Sub32(t, s.btnDownMs) IN
  IF IsLongPress(held)
  THEN [s EXCEPT !.gInvert = ~s.gInvert,
                 !.nvs = SaveDisplayPrefs(s.nvs, ~s.gInvert),
                 !.disp = ApplyDisplayPrefs(s.disp, ~s.gInvert)]
  ELSE [s EXCEPT !.nextFileRequested = TRUE]

\* the recognizer acting on the level instead of on a change of level
HandleBootButtonNoEdgeTest(s, btn, t) ==
  IF DebounceElapsed(t, s.btnLastChangeMs)
  THEN LET s1 == [s EXCEPT !.btnLastChangeMs = t]
           s2 == IF btn = LOW THEN [s1 EXCEPT !.btnDownMs = t] ELSE Released(s1, t)
       IN [s2 EXCEPT !.btnPrev = btn]
  ELSE s
\* handleBootButton with btn = digitalRead(BOOT_PIN) and t = millis()
HandleBootButton(s, btn, t) ==
  IF btn # s.btnPrev /\ DebounceElapsed(t, s.btnLastChangeMs)
  THEN LET s1 == [s EXCEPT !.btnLastChangeMs = t]
           s2 == IF btn = LOW THEN [s1 EXCEPT !.btnDownMs = t] ELSE Released(s1, t)
       IN [s2 EXCEPT !.btnPrev = btn]
  ELSE s

(* ------------------------------------------------------------------ *)
(* Playlist catalog                                                    *)
(* ------------------------------------------------------------------ *)
\* only V3p0 has the name.startsWith(".") test
SkipsHidden(sk) == sk = "V3p0"

\* the loop body without the break at MAX_FILES
EnumBodyNoStop(sk, list, e) ==
  IF ~e.isDir /\ ~(SkipsHidden(sk) /\ StartsWith(e.name, <<".">>))
     /\ EndsWith(e.name, DotMjpeg)
  THEN [list |-> Append(list, e.name), stop |-> FALSE]
  ELSE [list |-> list, stop |-> FALSE]
\* one pass of the body of the enumeration loop on directory entry e:
\* the catalog after it, and whether the loop is left (break)
EnumBody(sk, list, e) ==
  IF ~e.isDir
  THEN IF SkipsHidden(sk) /\ StartsWith(e.name, <<".">>)
       THEN [list |-> list, stop |-> FALSE]
       ELSE IF EndsWith(e.name, DotMjpeg)
            THEN [list |-> Append(list, e.name),
                  stop |-> Len(list) + 1 >= MAX_FILES]
            ELSE [list |-> list, stop |-> FALSE]
  ELSE [list |-> list, stop |-> FALSE]

RECURSIVE EnumFrom(_, _, _, _)
EnumFrom(sk, lst, i, list) ==
  IF i > Len(lst) THEN list
  ELSE LET r == EnumBody(sk, list, lst[i]) IN
       IF r.stop THEN r.list ELSE EnumFrom(sk, lst, i + 1, r.list)

\* loadMjpegFilesList on an opened folder: mjpegFileList[0 .. mjpegCount-1]
LoadMjpegFilesList(sk, lst) == EnumFrom(sk, lst, 1, << >>)

\* mjpegFileList[i]: the slots past mjpegCount still hold the empty String
FileAt(list, i) == IF i + 1 <= Len(list) THEN list[i + 1] ELSE EmptyName

(* ------------------------------------------------------------------ *)
(* Playlist cursor                                                     *)
(* ------------------------------------------------------------------ *)
NextIndexNoWrap(i, n) == i + 1
NextIndexWrapsLate(i, n) == IF i + 1 > n THEN 0 ELSE i + 1
\* currentMjpegIndex++; if (currentMjpegIndex >= mjpegCount) currentMjpegIndex = 0;
NextIndex(i, n) == IF i + 1 >= n THEN 0 ELSE i + 1

CursorAfterAlways(next, i, n) == NextIndex(i, n)
\* loop(): the cursor after playSelectedMjpeg returned next
CursorAfter(next, i, n) == IF next THEN NextIndex(i, n) ELSE i

(* ------------------------------------------------------------------ *)
(* Storage                                                             *)
(* ------------------------------------------------------------------ *)
\* what SD.open(MJPEG_FOLDER + "/" + name, "r") can give: with the empty name the
\* path is the folder itself
OpenOutcomes(name, lst, fail) ==
  IF fail THEN {"fail"}
  ELSE IF name = EmptyName THEN {"fail", "dir"}
  ELSE LET hits == {i \in 1..Len(lst) : lst[i].name = name} IN
       IF hits = {} THEN {"fail"}
       ELSE {IF lst[i].isDir THEN "dir" ELSE "ok" : i \in hits}

StreamFrames(name, lst) ==
  LET hits == {i \in 1..Len(lst) : lst[i].name = name} IN
  IF hits = {} THEN 0 ELSE lst[CHOOSE i \in hits : TRUE].frames


(* ------------------------------------------------------------------ *)
(* Session statistics                                                  *)
(* ------------------------------------------------------------------ *)
\* only V3p0 tests time_used > 0 before it divides
GuardsFps(sk) == sk = "V3p0"

\* a float as printed by "%0.1f": a number in tenths, or inf, or nan
Num(tenths) == [kind |-> "num", tenths |-> tenths]
Inf == [kind |-> "inf", tenths |-> 0]
NaN == [kind |-> "nan", tenths |-> 0]

\* 1000.0 * frames / time_used in IEEE arithmetic, rounded to one decimal
FloatDiv1000(frames, time_used) ==
  IF time_used # 0
  THEN Num((20000 * frames + time_used) \div (2 * time_used))
  ELSE IF frames = 0 THEN NaN ELSE Inf

\* the "Average FPS" of the statistics printed at the end of a session, and
\* whether the division by time_used was evaluated
AverageFps(sk, frames, time_used) ==
  IF GuardsFps(sk)
  THEN IF time_used > 0
       THEN [divided |-> TRUE, fps |-> FloatDiv1000(frames, time_used)]
       ELSE [divided |-> FALSE, fps |-> Num(0)]
  ELSE [divided |-> TRUE, fps |-> FloatDiv1000(frames, time_used)]

(* ------------------------------------------------------------------ *)
(* History (what an observer of the pins, the panel, the store and the *)
(* serial line has seen); the program never reads it                   *)
(* ------------------------------------------------------------------ *)
NoPoll == [edge |-> "none", held |-> 0, short |-> FALSE, long |-> FALSE]
NoRet == [how |-> "none", index |-> 0, value |-> FALSE]
\* the statistics printed at the end of the last session: frames, time_used,
\* the average and whether it was obtained by a division; frames = -1 while none
NoStats == [frames |-> -1, time_used |-> 0, divided |-> FALSE, fps |-> Num(0)]
\* the session in progress, or the last one whose file opened:
\* short: one of its polls accepted a release held < LONG_PRESS_MS
\* after: chunks read after that poll; reads: chunks read; frames: chunks
\* decoded and drawn; polls: polls of the button
NoSess == [short |-> FALSE, after |-> 0, reads |-> 0, frames |-> 0, polls |-> 0]
Obs0 ==
  [pinDownMs |-> 0,      \* when the line last went LOW
   lastD |-> -1,         \* LOW duration of the last completed press, -1 while none
   pressIdle |-> FALSE,  \* the recognizer's stable level was HIGH when it went LOW
   pressLoop |-> FALSE,  \* the playlist loop was running when it went LOW
   cycClean |-> FALSE,   \* ... in a frame loop, and every open since gave frames
   polled |-> FALSE,     \* a poll has sampled HIGH since the release
   cycShort |-> 0,       \* polls that set nextFileRequested since the line went LOW
   cycLong |-> 0,        \* polls that toggled the polarity since the line went LOW
   cycAdv |-> 0,         \* cursor advances since the line went LOW
   accFallMs |-> 0,      \* time of the poll that last accepted a falling edge
   poll |-> NoPoll,      \* the outcome of the latest poll since the line went LOW
   ret |-> NoRet,        \* how the last mjpegPlayFromSDCard returned, and for which index
   sess |-> NoSess,
   fault |-> "none",     \* the startup step that failed
   stats |-> NoStats,
   pending |-> 0,        \* short presses registered minus returns of true
   playing |-> 0,        \* the index last given to playSelectedMjpeg
   longs |-> 0,          \* releases accepted >= LONG_PRESS_MS after the accepted press
   bootInvert |-> TRUE,  \* the polarity loaded at startup
   rebooted |-> FALSE]   \* the board has been power-cycled

(* ------------------------------------------------------------------ *)
(* Initial state: power-on of a board flashed with one of the sketches *)
(* ------------------------------------------------------------------ *)
\* the boards of the player specification: a sketch and the card in its slot
MainBoards == {<<"V3p0", << >> >>, <<"V3p0", <<EA, EB>> >>, <<"prev", <<EH, EA>> >>}

\* zero-initialised / statically initialised RAM
RamInit ==
  /\ pc = "setup"
  /\ diag = ""
  /\ mjpegFileList = << >>
  /\ mjpegCount = 0
  /\ currentMjpegIndex = 0
  /\ gInvert = TRUE
  /\ disp = {}
  /\ btnPrev = HIGH
  /\ btnDownMs = 0
  /\ btnLastChangeMs = 0
  /\ nextFileRequested = FALSE
  /\ total_frames = 0
  /\ start_ms = 0
  /\ framesLeft = 0
  /\ dirPos = 0

Init ==
  /\ \E b \in MainBoards : sketch = b[1] /\ listing = b[2]
  /\ sdFail = FALSE
  /\ now = 0
  /\ ticks = 0
  /\ pin = HIGH
  /\ nvs = {}
  /\ obs = Obs0
  /\ RamInit

(* ------------------------------------------------------------------ *)
(* Environment                                                         *)
(* ------------------------------------------------------------------ *)
Running == pc \in {"loop", "frames", "close"}

\* time passes (while the program reads, decodes, draws)
Tick ==
  /\ Running
  /\ ticks < MaxTicks
  /\ \E dt \in ClockSteps : now' = (now + dt) % MillisModulus
  /\ ticks' = ticks + 1
  /\ UNCHANGED <<sketch, listing, sdFail, pin, catVars, prefVars, btnVars,
                 playVars, pc, diag, obs>>

\* the user pushes BOOT
Press ==
  /\ pc # "halt"
  /\ pin = HIGH
  /\ pin' = LOW
  /\ obs' = [obs EXCEPT !.pinDownMs = now, !.lastD = -1,
                        !.pressIdle = (btnPrev = HIGH),
                        !.pressLoop = Running,
                        !.cycClean = (pc = "frames" /\ ~sdFail),
                        !.polled = FALSE, !.poll = NoPoll,
                        !.cycShort = 0, !.cycLong = 0, !.cycAdv = 0]
  /\ UNCHANGED <<sketch, listing, sdFail, now, ticks, catVars, prefVars, btnVars,
                 playVars, pc, diag>>

\* the user lets go of BOOT
Release ==
  /\ pc # "halt"
  /\ pin = LOW
  /\ pin' = HIGH
  /\ obs' = [obs EXCEPT !.lastD = Sub32(now, obs.pinDownMs), !.polled = FALSE]
  /\ UNCHANGED <<sketch, listing, sdFail, now, ticks, catVars, prefVars, btnVars,
                 playVars, pc, diag>>

\* the card starts failing (pulled out, worn out)
SdFault ==
  /\ pc # "halt"
  /\ ~sdFail
  /\ sdFail' = TRUE
  /\ obs' = [obs EXCEPT !.cycClean = FALSE]
  /\ UNCHANGED <<sketch, listing, now, ticks, pin, catVars, prefVars, btnVars,
                 playVars, pc, diag>>

(* ------------------------------------------------------------------ *)
(* setup()                                                             *)
(* ------------------------------------------------------------------ *)
SetupFaults == {"none", "display", "outbuf", "mjpegbuf", "folder"}

\* the startup steps that can fail, in the order setup() takes them
FaultKinds == {"display", "mount", "outbuf", "mjpegbuf", "folder"}

\* the line printed before the endless loop
Diagnostic(kind) ==
  CASE kind = "display" -> "Display initialization failed!"
    [] kind = "mount" -> "ERROR: File system mount failed!"
    [] kind = "outbuf" -> "output_buf aligned_alloc failed!"
    [] kind = "mjpegbuf" -> "mjpeg_buf allocation failed!"
    [] kind = "folder" -> "Failed to open /mjpeg folder"

\* the first step of setup() that fails when the hardware fault is fault and
\* the card is failing or not
Struck(fault, fail) ==
  IF fault = "display" THEN "display"
  ELSE IF fail THEN "mount"
  ELSE fault

HaltFallsThrough(msg) == pc' = "loop" /\ diag' = msg
\* Serial.println(msg); while (true) { }
Halt(msg) == pc' = "halt" /\ diag' = msg

Setup ==
  /\ pc = "setup"
  /\ \E fault \in SetupFaults :
       LET g == LoadDisplayPrefs(nvs, gInvert) IN
       /\ gInvert' = g
       /\ obs' = [obs EXCEPT !.bootInvert = g, !.fault = Struck(fault, sdFail)]
       /\ nvs' = nvs
       /\ IF fault = "display"
          THEN /\ Halt(Diagnostic("display"))
               /\ UNCHANGED <<disp, now, catVars>>
          ELSE /\ disp' = ApplyDisplayPrefs(disp, g)
               /\ now' = (now + SPLASH_MS) % MillisModulus
               /\ IF sdFail
                  THEN Halt(Diagnostic("mount")) /\ UNCHANGED catVars
                  ELSE IF fault = "outbuf"
                  THEN Halt(Diagnostic("outbuf")) /\ UNCHANGED catVars
                  ELSE IF fault = "mjpegbuf"
                  THEN Halt(Diagnostic("mjpegbuf")) /\ UNCHANGED catVars
                  ELSE IF fault = "folder"
                  THEN Halt(Diagnostic("folder")) /\ UNCHANGED catVars
                  ELSE /\ mjpegFileList' = LoadMjpegFilesList(sketch, listing)
                       /\ mjpegCount' = Len(mjpegFileList')
                       /\ dirPos' = Len(listing)
                       /\ pc' = "loop"
                       /\ diag' = diag
  /\ UNCHANGED <<sketch, listing, sdFail, ticks, pin, btnVars, playVars>>

(* ------------------------------------------------------------------ *)
(* loop() and mjpegPlayFromSDCard()                                    *)
(* ------------------------------------------------------------------ *)
CounterKept(n) == n
\* total_frames = 0;
ResetCounter(n) == 0

\* loop(): playSelectedMjpeg(currentMjpegIndex) up to the frame loop; an entry
\* that does not open returns false at once
PlayOpen ==
  /\ pc = "loop"
  /\ LET name == FileAt(mjpegFileList, currentMjpegIndex) IN
     \E o \in OpenOutcomes(name, listing, sdFail) :
       IF o # "ok"
       THEN /\ currentMjpegIndex' = CursorAfter(FALSE, currentMjpegIndex, mjpegCount)
            /\ pc' = "loop"
            /\ obs' = [obs EXCEPT !.playing = currentMjpegIndex,
                                  !.cycClean = FALSE,
                                  !.ret = [how |-> o, index |-> currentMjpegIndex,
                                           value |-> FALSE]]
            /\ UNCHANGED <<total_frames, start_ms, framesLeft, nextFileRequested>>
       ELSE /\ start_ms' = now
            /\ total_frames' = ResetCounter(total_frames)
            /\ nextFileRequested' = FALSE
            /\ framesLeft' = StreamFrames(name, listing)
            /\ pc' = "frames"
            /\ obs' = [obs EXCEPT !.playing = currentMjpegIndex,
                                  !.cycClean = @ /\ framesLeft' > 0,
                                  !.sess = NoSess, !.stats = NoStats]
            /\ UNCHANGED currentMjpegIndex
  /\ UNCHANGED <<envVars, catVars, prefVars, btnPrev, btnDownMs, btnLastChangeMs, diag>>

AfterPollNoBreak(flag) == "frames"
\* if (nextFileRequested) break;
AfterPoll(flag) == IF flag THEN "close" ELSE "frames"

\* one pass of the frame loop: read a chunk, decode and draw it, count it, poll
FrameStep ==
  /\ pc = "frames"
  /\ framesLeft > 0 /\ ~sdFail
  /\ framesLeft' = framesLeft - 1
  /\ total_frames' = total_frames + 1
  /\ LET r == HandleBootButton(BtnState, pin, now)
         edge == IF pin = btnPrev THEN "same"
                 ELSE IF r.btnPrev = btnPrev THEN "rejected"
                 ELSE IF pin = LOW THEN "fall" ELSE "rise"
         short == r.nextFileRequested /\ ~nextFileRequested
         long == r.gInvert # gInvert
         held == IF edge = "rise" THEN Sub32(now, obs.accFallMs) ELSE 0
     IN /\ btnPrev' = r.btnPrev
        /\ btnDownMs' = r.btnDownMs
        /\ btnLastChangeMs' = r.btnLastChangeMs
        /\ nextFileRequested' = r.nextFileRequested
        /\ gInvert' = r.gInvert
        /\ nvs' = r.nvs
        /\ disp' = r.disp
        /\ pc' = AfterPoll(r.nextFileRequested)
        /\ obs' = [obs EXCEPT
                     !.poll = [edge |-> edge, held |-> held,
                               short |-> short, long |-> long],
                     !.accFallMs = IF edge = "fall" THEN now ELSE @,
                     !.polled = @ \/ pin = HIGH,
                     !.cycShort = IF short THEN @ + 1 ELSE @,
                     !.cycLong = IF long THEN @ + 1 ELSE @,
                     !.longs = IF edge = "rise" /\ held >= LONG_PRESS_MS
                               THEN @ + 1 ELSE @,
                     !.pending = IF edge = "rise" /\ held < LONG_PRESS_MS
                                 THEN @ + 1 ELSE @,
                     !.sess = [short |-> @.short
                                           \/ (edge = "rise" /\ held < LONG_PRESS_MS),
                               after |-> IF @.short THEN @.after + 1 ELSE @.after,
                               reads |-> @.reads + 1,
                               frames |-> @.frames + 1,
                               polls |-> @.polls + 1]]
  /\ UNCHANGED <<envVars, catVars, start_ms, currentMjpegIndex, diag>>

\* the loop condition fails: no bytes left, or the chunk could not be read
FrameLoopEnd ==
  /\ pc = "frames"
  /\ framesLeft = 0 \/ sdFail
  /\ pc' = "close"
  /\ UNCHANGED <<envVars, catVars, prefVars, btnVars, playVars, diag, obs>>

FlagKeptAtReturn(flag) == flag
\* bool next = nextFileRequested; nextFileRequested = false;
FlagAtReturn(flag) == FALSE

\* after the frame loop: close, take and clear the flag, return to loop(),
\* which moves the cursor
PlayClose ==
  /\ pc = "close"
  /\ LET next == nextFileRequested
         time_used == Sub32(now, start_ms)
         avg == AverageFps(sketch, total_frames, time_used)
     IN
     /\ nextFileRequested' = FlagAtReturn(nextFileRequested)
     /\ currentMjpegIndex' = CursorAfter(next, currentMjpegIndex, mjpegCount)
     /\ obs' = [obs EXCEPT
                  !.ret = [how |-> IF next THEN "break"
                                   ELSE IF framesLeft = 0 THEN "exhausted"
                                   ELSE "readfail",
                           index |-> currentMjpegIndex, value |-> next],
                  !.cycAdv = IF next THEN @ + 1 ELSE @,
                  !.pending = IF next THEN @ - 1 ELSE @,
                  !.stats = [frames |-> total_frames, time_used |-> time_used,
                             divided |-> avg.divided, fps |-> avg.fps]]
  /\ pc' = "loop"
  /\ UNCHANGED <<envVars, catVars, prefVars, btnPrev, btnDownMs, btnLastChangeMs,
                 total_frames, start_ms, framesLeft, diag>>

Program == Setup \/ PlayOpen \/ FrameStep \/ FrameLoopEnd \/ PlayClose
Environment == Tick \/ Press \/ Release \/ SdFault

Next == Program \/ Environment

Spec == Init /\ [][Next]_vars


\* the single thread of control never stops executing
SpecFair == Spec /\ WF_vars(Program)

(* ------------------------------------------------------------------ *)
(* Power cycles                                                        *)
(* ------------------------------------------------------------------ *)
\* power off and on again with BOOT released and the card seated: RAM is
\* initialised anew, the clock restarts, the preference store keeps its record
Reboot ==
  /\ pin = HIGH
  /\ pc' = "setup"
  /\ diag' = ""
  /\ mjpegFileList' = << >>
  /\ mjpegCount' = 0
  /\ currentMjpegIndex' = 0
  /\ gInvert' = TRUE
  /\ disp' = {}
  /\ btnPrev' = HIGH
  /\ btnDownMs' = 0
  /\ btnLastChangeMs' = 0
  /\ nextFileRequested' = FALSE
  /\ total_frames' = 0
  /\ start_ms' = 0
  /\ framesLeft' = 0
  /\ dirPos' = 0
  /\ now' = 0
  /\ obs' = [Obs0 EXCEPT !.rebooted = TRUE]
  /\ sdFail' = FALSE
  /\ UNCHANGED <<sketch, listing, ticks, pin, nvs>>

NextBoot == Program \/ Tick \/ Press \/ Release \/ Reboot

\* the boards of the boot specification: either sketch, one media file
BootBoards == {<<"V3p0", <<EB>> >>, <<"prev", <<EB>> >>}

InitBoot ==
  /\ \E b \in BootBoards : sketch = b[1] /\ listing = b[2]
  /\ sdFail = FALSE
  /\ now = 0
  /\ ticks = 0
  /\ pin = HIGH
  /\ nvs = {}
  /\ obs = Obs0
  /\ RamInit

SpecBoot == InitBoot /\ [][NextBoot]_vars

(* ------------------------------------------------------------------ *)
(* The clock wrapping while the player runs                            *)
(* ------------------------------------------------------------------ *)
\* how long before the wrap of millis() the specification starts (ms)
WrapLeads == {10, 15, 1000}

WrapBoards == {<<"V3p0", <<EA>> >>}

\* a player that has replayed its file since power-on with BOOT never touched,
\* between two sessions, shortly before millis() wraps: the last session ran
\* to the end of the stream in 45 ms
InitWrap ==
  /\ \E b \in WrapBoards : sketch = b[1] /\ listing = b[2]
  /\ sdFail = FALSE
  /\ \E d \in WrapLeads : now = MillisModulus - d
  /\ ticks = 0
  /\ pin = HIGH
  /\ nvs = {}
  /\ pc = "loop"
  /\ diag = ""
  /\ mjpegFileList = LoadMjpegFilesList(sketch, listing)
  /\ mjpegCount = Len(mjpegFileList)
  /\ dirPos = Len(listing)
  /\ currentMjpegIndex = 0
  /\ gInvert = TRUE
  /\ disp = ApplyDisplayPrefs({}, TRUE)
  /\ btnPrev = HIGH
  /\ btnDownMs = 0
  /\ btnLastChangeMs = 0
  /\ nextFileRequested = FALSE
  /\ total_frames = StreamFrames(FileAt(mjpegFileList, 0), listing)
  /\ start_ms = now - 45
  /\ framesLeft = 0
  /\ obs = [Obs0 EXCEPT
              !.ret = [how |-> "exhausted", index |-> 0, value |-> FALSE],
              !.sess = [short |-> FALSE, after |-> 0, reads |-> total_frames,
                        frames |-> total_frames, polls |-> total_frames],
              !.stats = [frames |-> total_frames, time_used |-> 45,
                         divided |-> TRUE,
                         fps |-> AverageFps(sketch, total_frames, 45).fps]]

NextWrap ==
  \/ PlayOpen \/ FrameStep \/ FrameLoopEnd \/ PlayClose
  \/ Tick \/ Press \/ Release

SpecWrap == InitWrap /\ [][NextWrap]_vars

(* ------------------------------------------------------------------ *)
(* The frame loop, one statement at a time                             *)
(* ------------------------------------------------------------------ *)
\* while (mjpegFile.available() && mjpeg.readMjpegBuf())
ReadChunk ==
  /\ pc = "frames"
  /\ framesLeft > 0 /\ ~sdFail
  /\ framesLeft' = framesLeft - 1
  /\ pc' = "decode"
  /\ obs' = [obs EXCEPT !.sess.reads = @ + 1,
                        !.sess.after = IF obs.sess.short THEN @ + 1 ELSE @]
  /\ UNCHANGED <<envVars, catVars, prefVars, btnVars, total_frames, start_ms,
                 currentMjpegIndex, diag>>

\* mjpeg.drawJpg();
DrawJpg ==
  /\ pc = "decode"
  /\ pc' = "count"
  /\ obs' = [obs EXCEPT !.sess.frames = @ + 1]
  /\ UNCHANGED <<envVars, catVars, prefVars, btnVars, playVars, diag>>

\* total_frames++;
CountFrame ==
  /\ pc = "count"
  /\ total_frames' = total_frames + 1
  /\ pc' = "poll"
  /\ UNCHANGED <<envVars, catVars, prefVars, btnVars, start_ms, framesLeft,
                 currentMjpegIndex, diag, obs>>

\* handleBootButton(); if (nextFileRequested) break;
PollButton ==
  /\ pc = "poll"
  /\ LET r == HandleBootButton(BtnState, pin, now)
         edge == IF pin = btnPrev THEN "same"
                 ELSE IF r.btnPrev = btnPrev THEN "rejected"
                 ELSE IF pin = LOW THEN "fall" ELSE "rise"
         short == r.nextFileRequested /\ ~nextFileRequested
         long == r.gInvert # gInvert
         held == IF edge = "rise" THEN Sub32(now, obs.accFallMs) ELSE 0
     IN /\ btnPrev' = r.btnPrev
        /\ btnDownMs' = r.btnDownMs
        /\ btnLastChangeMs' = r.btnLastChangeMs
        /\ nextFileRequested' = r.nextFileRequested
        /\ gInvert' = r.gInvert
        /\ nvs' = r.nvs
        /\ disp' = r.disp
        /\ pc' = AfterPoll(r.nextFileRequested)
        /\ obs' = [obs EXCEPT
                     !.poll = [edge |-> edge, held |-> held,
                               short |-> short, long |-> long],
                     !.accFallMs = IF edge = "fall" THEN now ELSE @,
                     !.polled = @ \/ pin = HIGH,
                     !.cycShort = IF short THEN @ + 1 ELSE @,
                     !.cycLong = IF long THEN @ + 1 ELSE @,
                     !.longs = IF edge = "rise" /\ held >= LONG_PRESS_MS
                               THEN @ + 1 ELSE @,
                     !.pending = IF edge = "rise" /\ held < LONG_PRESS_MS
                                 THEN @ + 1 ELSE @,
                     !.sess.short = @ \/ (edge = "rise" /\ held < LONG_PRESS_MS),
                     !.sess.polls = @ + 1]
  /\ UNCHANGED <<envVars, catVars, playVars, diag>>

\* time passes while a chunk is read or drawn
TickFrame ==
  /\ pc \in {"decode", "count"}
  /\ ticks < MaxTicks
  /\ \E dt \in ClockSteps : now' = (now + dt) % MillisModulus
  /\ ticks' = ticks + 1
  /\ UNCHANGED <<sketch, listing, sdFail, pin, catVars, prefVars, btnVars,
                 playVars, pc, diag, obs>>

NextSession ==
  \/ Setup \/ PlayOpen \/ ReadChunk \/ DrawJpg \/ CountFrame \/ PollButton
  \/ FrameLoopEnd \/ PlayClose
  \/ TickFrame \/ Press \/ Release \/ SdFault

\* the board of the session specification: the frame loop is the same in both
\* sketches
SessionBoards == {<<"V3p0", <<EA>> >>}

InitSession ==
  /\ \E b \in SessionBoards : sketch = b[1] /\ listing = b[2]
  /\ sdFail = FALSE
  /\ now = 0
  /\ ticks = 0
  /\ pin = HIGH
  /\ nvs = {}
  /\ obs = Obs0
  /\ RamInit

SpecSession == InitSession /\ [][NextSession]_vars

(* ------------------------------------------------------------------ *)
(* Catalog enumeration, one directory entry at a time                  *)
(* ------------------------------------------------------------------ *)
CatPool == {EA, EB, EH, ES, ET, ED}

\* a folder with more eligible files than MAX_FILES, a hidden one among them
BigListing ==
  [i \in 1..(MAX_FILES + 2) |->
     IF i = 3 THEN EH ELSE Entry(<<Letters[i]>> \o DotMjpeg, FALSE, 0)]

\* directory snapshots: no name twice
CatListings ==
  {BigListing} \cup
  UNION {{l \in [1..k -> CatPool] : \A i, j \in 1..k : l[i] = l[j] => i = j}
         : k \in 0..MaxListLen}

InitCat ==
  /\ sketch \in Sketches
  /\ listing \in CatListings
  /\ sdFail = FALSE
  /\ now = SPLASH_MS
  /\ ticks = 0
  /\ pin = HIGH
  /\ nvs = {}
  /\ obs = Obs0
  /\ RamInit

\* loadMjpegFilesList: SD.open(MJPEG_FOLDER), mjpegCount = 0
ListOpen ==
  /\ pc = "setup"
  /\ \E ok \in BOOLEAN :
       IF ok THEN /\ pc' = "enum"
                  /\ mjpegCount' = 0
                  /\ mjpegFileList' = << >>
                  /\ dirPos' = 0
                  /\ diag' = diag
                  /\ obs' = obs
             ELSE /\ Halt(Diagnostic("folder"))
                  /\ obs' = [obs EXCEPT !.fault = "folder"]
                  /\ UNCHANGED catVars
  /\ UNCHANGED <<envVars, prefVars, btnVars, playVars>>

\* loadMjpegFilesList: one openNextFile() and the loop body on what it returns
ListNext ==
  /\ pc = "enum"
  /\ IF dirPos >= Len(listing)
     THEN pc' = "enumDone" /\ UNCHANGED catVars
     ELSE LET r == EnumBody(sketch, mjpegFileList, listing[dirPos + 1]) IN
          /\ mjpegFileList' = r.list
          /\ mjpegCount' = Len(r.list)
          /\ dirPos' = dirPos + 1
          /\ pc' = IF r.stop THEN "enumDone" ELSE "enum"
  /\ UNCHANGED <<envVars, prefVars, btnVars, playVars, diag, obs>>

NextCat == ListOpen \/ ListNext

SpecCatalog == InitCat /\ [][NextCat]_vars


(* ================================================================== *)
(* Properties                                                          *)
(* ================================================================== *)

\* the press just completed is over for the recognizer too: the line is HIGH, the
\* stable level is HIGH and a poll has sampled the line since the release
CycleSettled == pin = HIGH /\ obs.lastD >= 0 /\ btnPrev = HIGH /\ obs.polled

\* C1 (as claimed): a press made and released while a file plays, LOW for d ms:
\* 30 <= d < 1200 gives exactly one short-press event and no toggle, d >= 1200
\* exactly one toggle and no short-press event.
C1_ByPhysicalDuration ==
  (obs.cycClean /\ CycleSettled) =>
     /\ (BUTTON_DEBOUNCE_MS <= obs.lastD /\ obs.lastD < LONG_PRESS_MS)
           => (obs.cycShort = 1 /\ obs.cycLong = 0)
     /\ obs.lastD >= LONG_PRESS_MS => (obs.cycLong = 1 /\ obs.cycShort = 0)

\* C1 (amended): a press produces at most one event, and the poll that accepts
\* its release produces exactly one, decided by the time h between the poll that
\* accepted the press and this poll: h < 1200 sets nextFileRequested once and
\* does not toggle, h >= 1200 toggles once and does not set nextFileRequested.
C1_ByMeasuredHold ==
  /\ obs.cycShort + obs.cycLong <= 1
  /\ obs.poll.edge = "rise" =>
       IF obs.poll.held >= LONG_PRESS_MS
       THEN obs.poll.long /\ ~obs.poll.short /\ obs.cycLong = 1 /\ obs.cycShort = 0
       ELSE obs.poll.short /\ ~obs.poll.long /\ obs.cycShort = 1 /\ obs.cycLong = 0

\* a release accepted exactly LONG_PRESS_MS after the accepted press toggled
C1_Witness ==
  obs.poll.edge = "rise" /\ obs.poll.held = LONG_PRESS_MS /\ obs.cycLong = 1

\* C2 (as claimed): a bounce - the line LOW for less than 30 ms, starting from a
\* settled HIGH - never produces a gesture, also when a poll accepted its LOW.
C2_NoGestureFromBounce ==
  (obs.pressIdle /\ obs.lastD > 0 /\ obs.lastD < BUTTON_DEBOUNCE_MS)
     => (obs.cycShort = 0 /\ obs.cycLong = 0)

\* C3 (as claimed): after an entry failed to open or was a directory, the
\* playback has returned false and the cursor is at the next entry.
C3_SkipsUnopenableEntry ==
  (pc = "loop" /\ obs.ret.how \in {"fail", "dir"}) =>
     /\ obs.ret.value = FALSE
     /\ currentMjpegIndex = NextIndex(obs.ret.index, mjpegCount)
     /\ mjpegFileList = LoadMjpegFilesList(sketch, listing)

\* a short press (30 <= d < 1200) has been made while the loop was running on a
\* catalog that is not empty
ShortPressMade ==
  /\ pin = HIGH /\ obs.pressLoop /\ mjpegCount > 0
  /\ BUTTON_DEBOUNCE_MS <= obs.lastD /\ obs.lastD < LONG_PRESS_MS

\* C4 (as claimed): after a short press made while the loop runs, the cursor
\* eventually advances (unless the button is pushed again first), whatever the
\* current entry is.
C4_ShortPressAdvances == ShortPressMade ~> (obs.cycAdv >= 1 \/ pin = LOW)

\* C5: a playback that returns AdvanceRequested moves the cursor to
\* (cursor + 1) mod mjpegCount, and no other step changes the cursor.
C5_CursorAdvance ==
  [][ /\ (pc = "close" /\ pc' = "loop" /\ nextFileRequested)
         => currentMjpegIndex' = (currentMjpegIndex + 1) % mjpegCount
      /\ currentMjpegIndex' # currentMjpegIndex
         => (pc = "close" /\ pc' = "loop" /\ nextFileRequested) ]_vars

\* the cursor wrapped from the last entry of a two-entry catalog to index 0
C5_Witness ==
  /\ pc = "loop" /\ mjpegCount = 2
  /\ obs.ret.how = "break" /\ obs.ret.index = 1 /\ currentMjpegIndex = 0

\* C6: after a playback ended naturally (stream exhausted, no short press) the
\* cursor is where it was, and the playback started next is of the same entry,
\* from its first frame.
C6_NaturalEndReplays ==
  obs.ret.how = "exhausted" =>
     /\ obs.ret.value = FALSE
     /\ currentMjpegIndex = obs.ret.index
     /\ pc \in {"frames", "close"} =>
          /\ obs.playing = obs.ret.index
          /\ total_frames + framesLeft =
               StreamFrames(FileAt(mjpegFileList, obs.ret.index), listing)

\* catalog [a, b]: a short press during a moved the cursor to 1, b played to its
\* natural end and is being played again
C6_Witness ==
  /\ mjpegFileList = <<NameA, NameB>>
  /\ obs.ret.how = "exhausted" /\ obs.ret.index = 1
  /\ currentMjpegIndex = 1 /\ pc = "frames" /\ obs.playing = 1
  /\ framesLeft = FramesShort

\* C7: a poll that accepts a release held >= 1200 ms negates gInvert, saves and
\* applies the new value in that poll, does not set nextFileRequested, stays in
\* the frame loop and leaves the cursor.
C7_LongPressEffect ==
  [][ ( /\ pc = "frames" /\ total_frames' = total_frames + 1
        /\ pin = HIGH /\ btnPrev = LOW /\ btnPrev' = HIGH
        /\ Sub32(now, btnDownMs) >= LONG_PRESS_MS )
      => /\ gInvert' = ~gInvert
         /\ nvs' = {gInvert'}
         /\ disp' = {gInvert'}
         /\ nextFileRequested' = FALSE
         /\ pc' = "frames"
         /\ currentMjpegIndex' = currentMjpegIndex ]_vars

\* a long press was just classified, and the session goes on with frames to play
C7_Witness ==
  /\ obs.poll.edge = "rise" /\ obs.poll.long /\ obs.poll.held >= LONG_PRESS_MS
  /\ pc = "frames" /\ framesLeft > 0 /\ nvs = {FALSE} /\ disp = {FALSE}

\* C8: after every long press the stored, the in-memory and the displayed
\* polarity are equal, and the polarity is the startup one after an even number
\* of long presses and its inverse after an odd number.
C8_ToggleTwiceRestores ==
  obs.longs >= 1 =>
     /\ nvs = {gInvert}
     /\ disp = {gInvert}
     /\ gInvert = (IF obs.longs % 2 = 0 THEN obs.bootInvert ELSE ~obs.bootInvert)

\* two long presses in succession
C8_Witness == obs.longs = 2 /\ gInvert = obs.bootInvert /\ nvs = {gInvert}

\* the display was initialised by setup()
DisplayUp == pc # "setup" /\ diag # "Display initialization failed!"

\* C9: on the first boot without a record the loaded polarity is true and it is
\* applied at startup; after exactly one long press the stored value is false and
\* the display shows the inverse of the boot polarity; on a later boot the
\* loaded polarity is the stored value.
C9_BootPolarity ==
  /\ (~obs.rebooted /\ pc # "setup" /\ obs.longs = 0)
        => (gInvert = TRUE /\ obs.bootInvert = TRUE /\ (DisplayUp => disp = {TRUE}))
  /\ (~obs.rebooted /\ obs.longs = 1)
        => (nvs = {FALSE} /\ disp = {FALSE} /\ disp # {obs.bootInvert})
  /\ (obs.rebooted /\ pc # "setup" /\ nvs # {})
        => (obs.longs = 0 => nvs = {obs.bootInvert})
  /\ (obs.rebooted /\ DisplayUp /\ obs.longs = 0) => disp = {obs.bootInvert}

\* a boot after the long press: the stored false is loaded and shown
C9_Witness ==
  /\ obs.rebooted /\ pc = "loop" /\ obs.longs = 0
  /\ nvs = {FALSE} /\ gInvert = FALSE /\ disp = {FALSE}

\* not a directory, name not beginning with '.', name ending in ".mjpeg"
Eligible(e) ==
  /\ ~e.isDir
  /\ Len(e.name) > 0 /\ e.name[1] # "."
  /\ EndsWith(e.name, DotMjpeg)

FirstN(q, n) == SubSeq(q, 1, IF Len(q) < n THEN Len(q) ELSE n)

NamesOf(q) == [i \in 1..Len(q) |-> q[i].name]

\* C10 (as claimed): in either sketch the catalog built is the first MAX_FILES,
\* in listing order, of the entries that are no directory, not hidden and end in
\* ".mjpeg".
C10_CatalogIsEligiblePrefix ==
  pc = "enumDone" =>
     /\ mjpegFileList = FirstN(NamesOf(SelectSeq(listing, Eligible)), MAX_FILES)
     /\ mjpegCount = Len(mjpegFileList)

\* the eligible entries of the listing up to and including position i
EligibleUpTo(i) == {j \in 1..i : Eligible(listing[j])}

\* C11: during and after enumeration mjpegCount and the highest index written
\* stay within MAX_FILES; enumeration is over as soon as MAX_FILES files are
\* recorded; an eligible file after the MAX_FILES-th eligible one is never in the
\* catalog; reaching the limit is no error (no diagnostic, no halt).
C11_CatalogBounded ==
  /\ mjpegCount <= MAX_FILES
  /\ Len(mjpegFileList) <= MAX_FILES
  /\ mjpegCount = MAX_FILES => (pc = "enumDone" /\ diag = "")
  /\ \A i \in 1..Len(listing) :
        (Eligible(listing[i]) /\ Cardinality(EligibleUpTo(i)) > MAX_FILES)
           => \A k \in 1..Len(mjpegFileList) : mjpegFileList[k] # listing[i].name

\* V3p0 stopped at the limit with eligible entries of the folder still unread
C11_Witness ==
  /\ sketch = "V3p0" /\ pc = "enumDone" /\ mjpegCount = MAX_FILES
  /\ dirPos < Len(listing) /\ Eligible(listing[Len(listing)])
  /\ Cardinality(EligibleUpTo(Len(listing))) = MAX_FILES + 1

\* C12 (as claimed): once startup has enumerated an empty catalog the system is
\* halted, and mjpegPlayFromSDCard has not been invoked on any index.
C12_EmptyCatalogHalts ==
  (pc # "setup" /\ mjpegCount = 0) => (pc = "halt" /\ obs.ret.how = "none")

\* C13: mjpegPlayFromSDCard returns true exactly when a poll of its own frame
\* loop registered a short press (accepted a release held < LONG_PRESS_MS); after
\* that poll the loop is left at once and no further chunk is read; a stream
\* that ran out, a chunk that could not be read and a file that did not open
\* return false.
C13_ReturnsAdvanceIffShortPress ==
  /\ obs.sess.after = 0
  /\ pc = "frames" => ~obs.sess.short
  /\ pc = "close" => (nextFileRequested <=> obs.sess.short)
  /\ (pc = "loop" /\ obs.ret.how \in {"break", "exhausted", "readfail"})
        => (obs.ret.value <=> obs.sess.short)
  /\ obs.ret.how \in {"exhausted", "readfail", "fail", "dir"} => ~obs.ret.value

\* a session was left on a short press with a frame of its stream unread
C13_Witness ==
  /\ pc = "loop" /\ obs.ret.how = "break" /\ obs.ret.value /\ obs.sess.short
  /\ framesLeft > 0 /\ obs.sess.frames = 1

\* C14: when the display initialisation, the storage mount, the allocation of
\* either buffer or the opening of the media folder fails, the system is halted:
\* no step of the program is possible any more, the steps of setup() after the
\* failed one have not run, the catalog is empty and mjpegPlayFromSDCard has not
\* been invoked; the diagnostic printed is that of the failure, and no two kinds
\* of failure share a diagnostic.
C14_StartupFailureHalts ==
  /\ \A f, g \in FaultKinds : f # g => Diagnostic(f) # Diagnostic(g)
  /\ pc # "setup" => (pc = "halt" <=> obs.fault \in FaultKinds)
  /\ pc = "halt" =>
       /\ diag = Diagnostic(obs.fault)
       /\ ~ENABLED Program
       /\ mjpegCount = 0 /\ mjpegFileList = << >> /\ dirPos = 0
       /\ obs.ret = NoRet /\ obs.sess = NoSess /\ total_frames = 0
       /\ IF obs.fault = "display" THEN disp = {} /\ now = 0
                                   ELSE disp = {gInvert} /\ now = SPLASH_MS

\* the second buffer could not be allocated: halted after the splash, with the
\* card mounted and the folder never opened
C14_Witness ==
  /\ pc = "halt" /\ obs.fault = "mjpegbuf" /\ ~sdFail
  /\ diag = "mjpeg_buf allocation failed!" /\ now = SPLASH_MS /\ mjpegCount = 0

\* C15 (as claimed): in either sketch the statistics of a session give
\* 1000 * frames / time_used, obtained by a division, only when time_used > 0;
\* when time_used = 0 nothing is divided by it for the average and 0 is printed.
C15_FpsGuarded ==
  obs.stats.frames >= 0 =>
     IF obs.stats.time_used > 0
     THEN /\ obs.stats.divided
          /\ obs.stats.fps = FloatDiv1000(obs.stats.frames, obs.stats.time_used)
     ELSE ~obs.stats.divided /\ obs.stats.fps = Num(0)

\* C16 (as claimed): a poll that samples a level different from the stable one
\* accepts it, and sets btnLastChangeMs, when at least BUTTON_DEBOUNCE_MS have
\* passed since the last accepted change - exactly 30 ms included - and does
\* not accept it when less has passed.
C16_AcceptsAtDebounceInterval ==
  [][ (pc = "frames" /\ total_frames' = total_frames + 1 /\ pin # btnPrev)
      => IF Sub32(now, btnLastChangeMs) >= BUTTON_DEBOUNCE_MS
         THEN btnPrev' = pin /\ btnLastChangeMs' = now
         ELSE btnPrev' = btnPrev /\ btnLastChangeMs' = btnLastChangeMs ]_vars

\* a step in which handleBootButton runs
PollStep == pc = "frames" /\ total_frames' = total_frames + 1

\* C17: a poll that accepts a rising edge gives exactly one of the two signals
\* (sets nextFileRequested, or toggles the polarity); a poll that accepts a
\* falling edge, one whose change is rejected by the debounce test and one that
\* sees the level unchanged give none; a poll that sees the level unchanged
\* (also LOW, for as long as the button is held) changes nothing of the
\* recognizer's state; and no step of the running player other than a poll
\* gives a signal.
C17_OneSignalPerAcceptedRelease ==
  [][ LET short == nextFileRequested' /\ ~nextFileRequested
          long == gInvert' # gInvert
          rise == pin = HIGH /\ btnPrev = LOW /\ btnPrev' = HIGH
      IN /\ (PollStep /\ rise) => (short # long)
         /\ (PollStep /\ ~rise) => (~short /\ ~long /\ nvs' = nvs /\ disp' = disp)
         /\ (PollStep /\ pin = btnPrev) => UNCHANGED <<btnVars, prefVars>>
         /\ (~PollStep /\ pc # "setup") => (~short /\ ~long) ]_vars

\* after a press that gave one short-press signal, a later poll saw the level
\* unchanged
C17_Witness ==
  /\ obs.cycShort = 1 /\ obs.cycLong = 0 /\ obs.lastD >= 0
  /\ obs.poll.edge = "same" /\ pin = HIGH /\ btnPrev = HIGH

\* C18: with a catalog that is not empty, the cursor is an index of the catalog
\* in every state, and so is every index that was given to playSelectedMjpeg:
\* it names an enumerated entry.
C18_CursorInCatalog ==
  mjpegCount > 0 =>
     /\ 0 <= currentMjpegIndex /\ currentMjpegIndex < mjpegCount
     /\ 0 <= obs.playing /\ obs.playing < mjpegCount
     /\ FileAt(mjpegFileList, obs.playing) # EmptyName
     /\ obs.ret.how # "none" => (0 <= obs.ret.index /\ obs.ret.index < mjpegCount)

\* an advance took the cursor to the last entry, whose playback then ended
\* naturally: the cursor is still the last index
C18_Witness ==
  /\ mjpegCount = 2 /\ currentMjpegIndex = mjpegCount - 1 /\ pc = "loop"
  /\ obs.ret.how = "exhausted" /\ obs.ret.index = 1 /\ obs.cycAdv = 1

\* C19: nextFileRequested is false whenever mjpegPlayFromSDCard is entered and
\* whenever it has returned, and while frames are being played; a registered
\* short press is pending only until the return of the session that registered
\* it, which returns true once for it: the count of short presses registered
\* minus returns of true is 1 while the flag is set and 0 otherwise, so no press
\* advances twice and none reaches the following session; the return of true
\* has moved the cursor by one position.
C19_AdvanceFlagOneShot ==
  /\ pc \in {"setup", "loop", "halt", "frames"} => ~nextFileRequested
  /\ obs.pending = (IF nextFileRequested THEN 1 ELSE 0)
  /\ nextFileRequested => (pc = "close" /\ obs.sess.short)
  /\ (pc = "loop" /\ obs.ret.how = "break")
        => currentMjpegIndex = (obs.ret.index + 1) % mjpegCount

\* the session after a short press plays on, at the next entry, with the flag
\* clear
C19_Witness ==
  /\ pc = "frames" /\ obs.ret.how = "break" /\ obs.cycShort = 1 /\ obs.cycAdv = 1
  /\ obs.playing = NextIndex(obs.ret.index, mjpegCount) /\ mjpegCount = 2
  /\ obs.sess.polls >= 1 /\ ~nextFileRequested /\ obs.pending = 0

\* the counts of the session in progress agree with total_frames at the
\* statement the program is at
SessionCounts ==
  LET s == obs.sess
      at(r, f, p) == s.reads = r /\ s.frames = f /\ s.polls = p
  IN /\ pc = "frames" => at(total_frames, total_frames, total_frames)
     /\ pc = "decode" => at(total_frames + 1, total_frames, total_frames)
     /\ pc = "count" => at(total_frames + 1, total_frames + 1, total_frames)
     /\ pc = "poll" => at(total_frames, total_frames, total_frames - 1)
     /\ pc = "close" => at(total_frames, total_frames, total_frames)
     /\ (pc = "loop" /\ obs.stats.frames >= 0)
           => (obs.stats.frames = total_frames
               /\ at(total_frames, total_frames, total_frames))

\* C20: in a session whose file opened the counters are zero before the first
\* chunk is read; every pass of the frame loop reads a chunk, then decodes and
\* draws it, then increments total_frames, then polls the button once; at Close
\* total_frames is the number of frames drawn and the number of polls of the
\* session; and the recognizer's state changes in no step but a poll of the
\* frame loop.
C20_FrameLoopOrder ==
  [][ /\ SessionCounts'
      /\ (pc = "loop" /\ pc' = "frames")
            => (total_frames' = 0 /\ obs'.sess = NoSess /\ start_ms' = now)
      /\ <<btnPrev, btnDownMs, btnLastChangeMs>>' # <<btnPrev, btnDownMs, btnLastChangeMs>>
            => (pc = "poll" /\ obs'.sess.polls = obs.sess.polls + 1) ]_vars

\* a session played its stream to the end: as many polls as frames
C20_Witness ==
  /\ pc = "close" /\ framesLeft = 0 /\ ~sdFail /\ total_frames >= 1
  /\ obs.sess.polls = total_frames /\ obs.sess.frames = total_frames
  /\ obs.ret.how = "exhausted"

\* C21: no step but a poll - in particular no start, end or replay of a
\* session - changes btnPrev, btnDownMs or btnLastChangeMs; and a release
\* accepted in a session that began after the press was accepted, the session
\* before it having ended naturally, is classified by the whole time since the
\* accepted press: 1200 ms or more toggles the polarity, sets no advance request
\* and leaves the cursor, less sets the advance request.
C21_GestureStateSpansSessions ==
  [][ /\ ~PollStep => UNCHANGED <<btnPrev, btnDownMs, btnLastChangeMs>>
      /\ ( /\ PollStep /\ pin = HIGH /\ btnPrev = LOW /\ btnPrev' = HIGH
           /\ obs.accFallMs < start_ms /\ obs.ret.how = "exhausted" )
         => IF now - obs.accFallMs >= LONG_PRESS_MS
            THEN /\ gInvert' = ~gInvert /\ ~nextFileRequested'
                 /\ pc' = "frames" /\ currentMjpegIndex' = currentMjpegIndex
            ELSE nextFileRequested' /\ gInvert' = gInvert ]_vars

\* a press accepted in one session was held over its natural end and released
\* in the replay, less than 1200 ms after the replay began: a long press
C21_Witness ==
  /\ obs.poll.edge = "rise" /\ obs.poll.long /\ obs.accFallMs < start_ms
  /\ now - start_ms < LONG_PRESS_MS /\ now - obs.accFallMs >= LONG_PRESS_MS
  /\ obs.ret.how = "exhausted" /\ obs.playing = obs.ret.index /\ pc = "frames"
  /\ currentMjpegIndex = obs.ret.index

\* time in ms relative to the instant the clock wraps, for a clock reading
\* within half a modulus of the wrap: readings before the wrap are negative
Lin(t) == IF t >= MillisModulus \div 2 THEN t - MillisModulus ELSE t

\* C22: at a poll that samples the release of a press accepted earlier - also
\* when the clock wrapped in between - the differences now - btnLastChangeMs
\* and now - btnDownMs equal the time truly elapsed, in the model's clock and in
\* 32-bit unsigned arithmetic on the device's clock values; the release is
\* accepted exactly when more than BUTTON_DEBOUNCE_MS have truly elapsed, and is
\* a long press exactly when LONG_PRESS_MS or more have.
C22_WrapTransparent ==
  [][ (PollStep /\ btnPrev = LOW /\ pin = HIGH) =>
        LET e == Lin(now) - Lin(obs.accFallMs)
            word == U32(e \div LimbBase, e % LimbBase)
        IN /\ Sub32(now, btnLastChangeMs) = e
           /\ Sub32(now, btnDownMs) = e
           /\ U32Sub(ToU32(now), ToU32(btnLastChangeMs)) = word
           /\ U32Sub(ToU32(now), ToU32(btnDownMs)) = word
           /\ (btnPrev' = HIGH) <=> (e > BUTTON_DEBOUNCE_MS)
           /\ btnPrev' = HIGH =>
                IF e >= LONG_PRESS_MS
                THEN gInvert' = ~gInvert /\ ~nextFileRequested'
                ELSE nextFileRequested' /\ gInvert' = gInvert ]_vars

\* a press accepted before the wrap and released after it, 1200 ms later, was
\* classified long
C22_Witness ==
  /\ obs.poll.edge = "rise" /\ obs.poll.long /\ obs.poll.held = LONG_PRESS_MS
  /\ now < obs.accFallMs /\ btnDownMs >= MillisModulus \div 2
  /\ Lin(now) - Lin(obs.accFallMs) = LONG_PRESS_MS

====
